---- MODULE Spec2Model ----
(***************************************************************************)
(* trace_favicon.py: trace_to_svg(input_path, output_path).                *)
(*                                                                         *)
(* The function loads an RGBA image, thresholds it into a boolean mask,    *)
(* lists one rectangle per on pixel (rects, never used afterwards),        *)
(* encodes every row of the mask into horizontal runs (optimized_rects),   *)
(* formats the SVG document and writes it to the output path.              *)
(*                                                                         *)
(* Strings are modelled as sequences of string tokens; the integers an     *)
(* f-string formats become decimal strings (Str).  Grids are functions     *)
(* indexed from 0 as in the source: grid[y][x].  The nested function       *)
(* trace_contour and the array visited (lines 31-75) are never called or   *)
(* read and are left out.                                                  *)
(***************************************************************************)
EXTENDS Integers, Sequences, FiniteSets, TLC

VARIABLES
    pc,               \* position in trace_to_svg
    input,            \* the decoded image behind input_path: [w, h, px]
    dest,             \* the content of the file at output_path
    width, height,    \* img.size
    pixels,           \* np.array(img): pixels[y][x] = <<R, G, B, A>>
    mask,             \* mask[y][x]
    rects,            \* one element per on pixel
    optimized_rects,  \* one element per horizontal run
    y, x, run_start,  \* loop variables of the run encoder
    svg_content,      \* the document text
    reads,            \* history: the mask cells the encoder has read, in order
    iter_x            \* history: x when the current `while x < width` iteration began

vars == <<pc, input, dest, width, height, pixels, mask, rects, optimized_rects,
          y, x, run_start, svg_content, reads, iter_x>>

----------------------------------------------------------------------------
(* Bounds of the model *)

MaxW == 3
MaxH == 2
Delta == 1

(* The thresholds of line 22 *)
AlphaThreshold == 128
BrightThreshold == 128

ChannelMax == 255

\* channel values around the thresholds, and the two extremes
ChannelVals == {0, ChannelMax} \cup
               ((AlphaThreshold - Delta) .. (AlphaThreshold + Delta))

OpaqueWhite == <<ChannelMax, ChannelMax, ChannelMax, ChannelMax>>
Transparent == <<0, 0, 0, 0>>
Palette == {OpaqueWhite, Transparent}

Images(hs, ws, pal) ==
    UNION { { [w |-> w, h |-> h, px |-> g] : g \in [0..(h-1) -> [0..(w-1) -> pal]] }
            : <<h, w>> \in hs \X ws }

OldContent == <<"previous content">>

----------------------------------------------------------------------------
(* Formatting *)

Digit == <<"0", "1", "2", "3", "4", "5", "6", "7", "8", "9">>

RECURSIVE Str(_)
\* the decimal text an f-string gives an int
Str(n) ==
    IF n < 0 THEN "-" \o Str(-n)
    ELSE IF n < 10 THEN Digit[n + 1]
    ELSE Str(n \div 10) \o Digit[(n % 10) + 1]

\* f'<rect x="{x}" y="{y}" width="1" height="1"/>'
PixelRect(px, py) ==
    <<"<rect x=\"", Str(px), "\" y=\"", Str(py), "\" width=\"", "1",
      "\" height=\"", "1", "\"/>">>

\* f'<rect x="{run_start}" y="{y}" width="{run_length}" height="1"/>'
RunRect(rs, ry, rl) ==
    <<"<rect x=\"", Str(rs), "\" y=\"", Str(ry), "\" width=\"", Str(rl),
      "\" height=\"", "1", "\"/>">>

RECURSIVE Join(_)
\* "".join(list)
Join(list) ==
    IF list = <<>> THEN <<>> ELSE Head(list) \o Join(Tail(list))

SvgHeader(w, h) ==
    <<"<?xml version=\"1.0\" encoding=\"UTF-8\"?>\n",
      "<svg xmlns=\"http://www.w3.org/2000/svg\" viewBox=\"0 0 ", Str(w), " ", Str(h),
      "\" width=\"", Str(w), "\" height=\"", Str(h), "\">\n",
      "  <g fill=\"white\">\n    ">>

SvgFooter == <<"\n  </g>\n</svg>">>

\* the f-string of lines 101-106
SvgDocument(w, h, list) == SvgHeader(w, h) \o Join(list) \o SvgFooter

----------------------------------------------------------------------------
(* Thresholding *)

Alpha(p) == p[4]

\* np.mean(rgb, axis=2): the exact mean, kept as the fraction <<sum, count>>
Mean(p) == <<p[1] + p[2] + p[3], 3>>

\* fraction > integer
FracGT(q, n) == q[1] > n * q[2]

\* faulty variant: the alpha test is not strict
AlphaOnGE(p) == Alpha(p) >= AlphaThreshold

AlphaOn(p) == Alpha(p) > AlphaThreshold

\* faulty variant: the brightness test is not strict
BrightOnGE(p) == Mean(p)[1] >= BrightThreshold * Mean(p)[2]

BrightOn(p) == FracGT(Mean(p), BrightThreshold)

\* (alpha > 128) & (brightness > 128)
IsOn(p) == AlphaOn(p) /\ BrightOn(p)

----------------------------------------------------------------------------
(* Run encoder helpers *)

\* faulty variant: the run stops one column before the end of the row
RunContinuesToLastCol(m, yy, xx, w) == xx < w - 1 /\ m[yy][xx]

\* faulty variant: the run test forgets the mask
RunContinuesNoMask(m, yy, xx, w) == xx < w

\* while x < width and mask[y, x]   (the mask is read only when x < width)
RunContinues(m, yy, xx, w) == xx < w /\ m[yy][xx]

\* the read the inner test makes, if any
RunReads(yy, xx, w) == IF xx < w THEN <<<<yy, xx>>>> ELSE <<>>

\* faulty variants: the run length is off by one
RunLengthShort(xx, rs) == xx - rs - 1

RunLengthLong(xx, rs) == xx - rs + 1

\* run_length = x - run_start
RunLength(xx, rs) == xx - rs

\* faulty variant: the run is emitted twice
EmitTwice(list, e) == Append(Append(list, e), e)

\* faulty variant: the run is inserted at the front
EmitFront(list, e) == <<e>> \o list

\* optimized_rects.append(...)
Emit(list, e) == Append(list, e)

\* faulty variant: the outer loop goes on right after the start of the run
ResumeAtNext(xx, rs) == rs + 1

\* the outer loop goes on with the x the inner loop left
ResumeAt(xx, rs) == xx

RECURSIVE RowPixels(_, _, _, _)
\* for x in range(width): if mask[y, x]: rects.append(...)
RowPixels(m, yy, xx, w) ==
    IF xx >= w THEN <<>>
    ELSE (IF m[yy][xx] THEN <<PixelRect(xx, yy)>> ELSE <<>>) \o RowPixels(m, yy, xx + 1, w)

RECURSIVE AllPixels(_, _, _, _)
\* for y in range(height): ...
AllPixels(m, yy, w, h) ==
    IF yy >= h THEN <<>> ELSE RowPixels(m, yy, 0, w) \o AllPixels(m, yy + 1, w, h)

----------------------------------------------------------------------------
(* Initial states *)

InitWith(imgs) ==
    /\ pc = "load"
    /\ input \in imgs
    /\ dest = OldContent
    /\ width = 0
    /\ height = 0
    /\ pixels = <<>>
    /\ mask = <<>>
    /\ rects = <<>>
    /\ optimized_rects = <<>>
    /\ y = 0
    /\ x = 0
    /\ run_start = 0
    /\ svg_content = <<>>
    /\ reads = <<>>
    /\ iter_x = -1

\* images of every size up to MaxH x MaxW over a two-pixel palette
Init == InitWith(Images(0..MaxH, 0..MaxW, Palette))

\* one-pixel images over the channel values around the thresholds
InitPixel == InitWith(Images({1}, {1}, ChannelVals \X ChannelVals \X ChannelVals \X ChannelVals))

----------------------------------------------------------------------------
(* Actions *)

\* lines 11-13
Load ==
    /\ pc = "load"
    /\ width' = input.w
    /\ height' = input.h
    /\ pixels' = input.px
    /\ pc' = "mask"
    /\ UNCHANGED <<input, dest, mask, rects, optimized_rects, y, x, run_start,
                   svg_content, reads, iter_x>>

\* Image.open raises: the exception leaves trace_to_svg
LoadFail ==
    /\ pc = "load"
    /\ pc' = "failed"
    /\ UNCHANGED <<input, dest, width, height, pixels, mask, rects, optimized_rects,
                   y, x, run_start, svg_content, reads, iter_x>>

\* lines 17-22
BuildMask ==
    /\ pc = "mask"
    /\ mask' = [yy \in 0..(height-1) |-> [xx \in 0..(width-1) |-> IsOn(pixels[yy][xx])]]
    /\ pc' = "rects"
    /\ UNCHANGED <<input, dest, width, height, pixels, rects, optimized_rects,
                   y, x, run_start, svg_content, reads, iter_x>>

\* lines 79-83
PixelRects ==
    /\ pc = "rects"
    /\ rects' = AllPixels(mask, 0, width, height)
    /\ optimized_rects' = <<>>
    /\ y' = 0
    /\ pc' = "for"
    /\ UNCHANGED <<input, dest, width, height, pixels, mask, x, run_start,
                   svg_content, reads, iter_x>>

\* line 87-88: the next row
ForRow ==
    /\ pc = "for"
    /\ y < height
    /\ x' = 0
    /\ iter_x' = -1
    /\ pc' = "while"
    /\ UNCHANGED <<input, dest, width, height, pixels, mask, rects, optimized_rects,
                   y, run_start, svg_content, reads>>

\* line 87: range(height) is exhausted
ForDone ==
    /\ pc = "for"
    /\ y >= height
    /\ pc' = "svg"
    /\ UNCHANGED <<input, dest, width, height, pixels, mask, rects, optimized_rects,
                   y, x, run_start, svg_content, reads, iter_x>>

\* lines 89-92: the pixel is on, a run starts
WhileOn ==
    /\ pc = "while"
    /\ x < width
    /\ mask[y][x]
    /\ reads' = Append(reads, <<y, x>>)
    /\ iter_x' = x
    /\ run_start' = x
    /\ pc' = "run"
    /\ UNCHANGED <<input, dest, width, height, pixels, mask, rects, optimized_rects,
                   y, x, svg_content>>

\* lines 89-90, 97-98: the pixel is off
WhileOff ==
    /\ pc = "while"
    /\ x < width
    /\ ~mask[y][x]
    /\ reads' = Append(reads, <<y, x>>)
    /\ iter_x' = x
    /\ x' = x + 1
    /\ UNCHANGED <<pc, input, dest, width, height, pixels, mask, rects, optimized_rects,
                   y, run_start, svg_content>>

\* line 89: the row is finished
WhileExit ==
    /\ pc = "while"
    /\ x >= width
    /\ y' = y + 1
    /\ pc' = "for"
    /\ UNCHANGED <<input, dest, width, height, pixels, mask, rects, optimized_rects,
                   x, run_start, svg_content, reads, iter_x>>

\* lines 93-94: the run goes on
RunExtend ==
    /\ pc = "run"
    /\ RunContinues(mask, y, x, width)
    /\ reads' = reads \o RunReads(y, x, width)
    /\ x' = x + 1
    /\ UNCHANGED <<pc, input, dest, width, height, pixels, mask, rects, optimized_rects,
                   y, run_start, svg_content, iter_x>>

\* lines 93, 95-96: the run ends and is emitted
RunEnd ==
    /\ pc = "run"
    /\ ~RunContinues(mask, y, x, width)
    /\ reads' = reads \o RunReads(y, x, width)
    /\ optimized_rects' = Emit(optimized_rects, RunRect(run_start, y, RunLength(x, run_start)))
    /\ x' = ResumeAt(x, run_start)
    /\ pc' = "while"
    /\ UNCHANGED <<input, dest, width, height, pixels, mask, rects,
                   y, run_start, svg_content, iter_x>>

\* lines 101-106
Serialize ==
    /\ pc = "svg"
    /\ svg_content' = SvgDocument(width, height, optimized_rects)
    /\ pc' = "open"
    /\ UNCHANGED <<input, dest, width, height, pixels, mask, rects, optimized_rects,
                   y, x, run_start, reads, iter_x>>

\* line 108: open(output_path, 'w') truncates the file, or raises and leaves it
Open ==
    /\ pc = "open"
    /\ \/ dest' = <<>> /\ pc' = "write"
       \/ dest' = dest /\ pc' = "failed"
    /\ UNCHANGED <<input, width, height, pixels, mask, rects, optimized_rects,
                   y, x, run_start, svg_content, reads, iter_x>>

\* line 109 and the close at the end of the with block: the whole text reaches
\* the file, or a write raises after only the first n tokens did
Write ==
    /\ pc = "write"
    /\ \/ dest' = svg_content /\ pc' = "print"
       \/ \E n \in 0..(Len(svg_content) - 1) :
              dest' = SubSeq(svg_content, 1, n) /\ pc' = "failed"
    /\ UNCHANGED <<input, width, height, pixels, mask, rects, optimized_rects,
                   y, x, run_start, svg_content, reads, iter_x>>

\* lines 111-113
Summary ==
    /\ pc = "print"
    /\ pc' = "done"
    /\ UNCHANGED <<input, dest, width, height, pixels, mask, rects, optimized_rects,
                   y, x, run_start, svg_content, reads, iter_x>>

Next ==
    \/ Load
    \/ LoadFail
    \/ BuildMask
    \/ PixelRects
    \/ ForRow
    \/ ForDone
    \/ WhileOn
    \/ WhileOff
    \/ WhileExit
    \/ RunExtend
    \/ RunEnd
    \/ Serialize
    \/ Open
    \/ Write
    \/ Summary

Spec == Init /\ [][Next]_vars

SpecPixel == InitPixel /\ [][Next]_vars

\* the interpreter runs a started call step by step until it returns or raises
FairSpec == Init /\ [][Next]_vars /\ WF_vars(Next)

----------------------------------------------------------------------------
(* Reading the emitted elements back *)

ParseRange == (0 - (MaxW + MaxH + 3)) .. (MaxW + MaxH + 3)

\* the decimal text of every integer of the range
StrTable == [n \in ParseRange |-> Str(n)]

\* the integer each of these texts denotes
ParseTable == [s \in {StrTable[n] : n \in ParseRange} |->
                  CHOOSE n \in ParseRange : StrTable[n] = s]

\* the integer a decimal text denotes
ParseInt(s) == ParseTable[s]

\* the rectangle a <rect .../> element describes
Rect(e) == [x |-> ParseInt(e[2]), y |-> ParseInt(e[4]),
            width |-> ParseInt(e[6]), height |-> ParseInt(e[8])]

Emitted == [i \in 1..Len(optimized_rects) |-> Rect(optimized_rects[i])]

EmittedIdx == 1..Len(optimized_rects)

\* the encoder has finished every row
Encoded == \/ pc \in {"svg", "open", "write", "print", "done"}
           \/ pc = "failed" /\ svg_content # <<>>

Masked == pc \notin {"load", "mask"}

Rows == 0..(height - 1)
Cols == 0..(width - 1)

OnCells == {c \in Cols \X Rows : mask[c[2]][c[1]]}

Covered == UNION { {<<xx, Emitted[i].y>> : xx \in Emitted[i].x .. (Emitted[i].x + Emitted[i].width - 1)}
                   : i \in EmittedIdx }

RowRects(yy) == {i \in EmittedIdx : Emitted[i].y = yy}

RunStarts(yy) == {xx \in Cols : mask[yy][xx] /\ (xx = 0 \/ ~mask[yy][xx - 1])}

XRange(r) == r.x .. (r.x + r.width - 1)

----------------------------------------------------------------------------
(* C1: once the encoder has finished, the pixels covered by the emitted    *)
(* rectangles are exactly the true entries of the mask, for every mask     *)
(* size including H = 0 and W = 0.                                         *)
C1_Coverage == Encoded => Covered = OnCells

C1_Witness ==
    /\ Encoded
    /\ height >= 2 /\ width >= 2
    /\ OnCells # {}
    /\ OnCells # Cols \X Rows
    /\ Covered = OnCells

(* C2: two distinct emitted rectangles of the same row have disjoint       *)
(* x-ranges.                                                               *)
C2_NonOverlap ==
    \A i, j \in EmittedIdx :
        (i # j /\ Emitted[i].y = Emitted[j].y) => XRange(Emitted[i]) \cap XRange(Emitted[j]) = {}

C2_Witness ==
    /\ Encoded
    /\ \E i, j \in EmittedIdx : i # j /\ Emitted[i].y = Emitted[j].y

(* C3: every emitted rectangle is a maximal run: the pixel before it is    *)
(* off or it starts at column 0, the pixel after it is off or it ends at   *)
(* column W; no two rectangles of a row are adjacent.                      *)
C3_Maximal ==
    /\ \A i \in EmittedIdx :
        LET r == Emitted[i] IN
        /\ r.y \in Rows
        /\ r.x = 0 \/ (r.x - 1 \in Cols /\ ~mask[r.y][r.x - 1])
        /\ r.x + r.width = width \/ (r.x + r.width \in Cols /\ ~mask[r.y][r.x + r.width])
    /\ \A i, j \in EmittedIdx :
        (i # j /\ Emitted[i].y = Emitted[j].y) => Emitted[i].x + Emitted[i].width # Emitted[j].x

C3_Witness ==
    /\ Encoded
    /\ \E i \in EmittedIdx : Emitted[i].x > 0 /\ Emitted[i].x + Emitted[i].width < width
    /\ \E i \in EmittedIdx : Emitted[i].x = 0 /\ Emitted[i].x + Emitted[i].width = width

\* the rectangle elements between the header and the footer of a document
DocBody(doc) == SubSeq(doc, Len(SvgHeader(width, height)) + 1, Len(doc) - Len(SvgFooter))

ElemLen == Len(RunRect(0, 0, 0))

DocElem(doc, i) == SubSeq(DocBody(doc), (i - 1) * ElemLen + 1, i * ElemLen)

(* C4: the rectangles are appended in strictly increasing row-major order, *)
(* and the document holds them in that same order.                         *)
C4_Order ==
    /\ \A i \in EmittedIdx :
        i + 1 \in EmittedIdx =>
            \/ Emitted[i].y < Emitted[i + 1].y
            \/ Emitted[i].y = Emitted[i + 1].y /\ Emitted[i].x < Emitted[i + 1].x
    /\ svg_content # <<>> =>
        /\ Len(DocBody(svg_content)) = ElemLen * Len(optimized_rects)
        /\ \A i \in EmittedIdx : DocElem(svg_content, i) = optimized_rects[i]
    /\ pc = "done" => dest = svg_content

C4_Witness ==
    /\ pc = "done"
    /\ \E i \in EmittedIdx : i + 1 \in EmittedIdx /\ Emitted[i].y < Emitted[i + 1].y
    /\ \E i \in EmittedIdx : i + 1 \in EmittedIdx /\ Emitted[i].y = Emitted[i + 1].y
    /\ Rect(DocElem(dest, 2)) = Emitted[2]

(* C5: every emitted rectangle has height 1 and width at least 1 and lies  *)
(* inside the grid.                                                        *)
C5_Shape ==
    \A i \in EmittedIdx :
        LET r == Emitted[i] IN
        /\ r.height = 1
        /\ r.width >= 1
        /\ 0 <= r.y /\ r.y < height
        /\ 0 <= r.x /\ r.x + r.width <= width

C5_Witness ==
    \E i \in EmittedIdx :
        /\ Emitted[i].width >= 2
        /\ Emitted[i].x + Emitted[i].width = width
        /\ Emitted[i].y = height - 1
        /\ Emitted[i].x > 0

RGBSum(p) == p[1] + p[2] + p[3]

(* C6: a mask entry is true iff the pixel's alpha is > 128 and the mean of *)
(* R, G, B is > 128 (R+G+B > 3*128), both strict: alpha 128 is off, mean   *)
(* exactly 128 is off, alpha 129 with all channels 129 is on.              *)
C6_Threshold ==
    Masked =>
        \A yy \in Rows : \A xx \in Cols :
            LET p == pixels[yy][xx] IN
            /\ mask[yy][xx] <=> (p[4] > 128 /\ RGBSum(p) > 3 * 128)
            /\ p[4] = 128 => ~mask[yy][xx]
            /\ RGBSum(p) = 3 * 128 => ~mask[yy][xx]
            /\ p = <<129, 129, 129, 129>> => mask[yy][xx]

C6_Witness ==
    /\ pc = "done"
    /\ pixels[0][0] = <<129, 129, 129, 129>>
    /\ mask[0][0]

\* the decision an integer (floor) mean would give
FloorOn(p) == p[4] > 128 /\ (RGBSum(p) \div 3) > 128

(* C7 as stated: the floor mean (R+G+B) div 3 gives the same on/off        *)
(* decision as the mean the code computes, for every pixel.                *)
C7_FloorMeanSame ==
    Masked => \A yy \in Rows : \A xx \in Cols : mask[yy][xx] <=> FloorOn(pixels[yy][xx])

(* C7 amended: the floor mean gives the same decision as the code's mean   *)
(* for every pixel whose R+G+B is not 385 or 386; for those two sums (mean *)
(* strictly between 128 and 129) an opaque pixel is on in the code's mask  *)
(* and off by the floor mean.                                              *)
C7_FloorMeanAmended ==
    Masked =>
        \A yy \in Rows : \A xx \in Cols :
            LET p == pixels[yy][xx] IN
            /\ RGBSum(p) \notin {385, 386} => (mask[yy][xx] <=> FloorOn(p))
            /\ (RGBSum(p) \in {385, 386} /\ p[4] > 128) => (mask[yy][xx] /\ ~FloorOn(p))

C7_Witness ==
    /\ pc = "done"
    /\ RGBSum(pixels[0][0]) = 385
    /\ pixels[0][0][4] = 129
    /\ mask[0][0]
    /\ ~FloorOn(pixels[0][0])

\* the run has ended: returned, or left by an exception
Terminated == pc \in {"done", "failed"}

(* C8: when the run has ended, the output file holds the complete document *)
(* or what it held before the run.                                         *)
C8_AllOrNothing ==
    Terminated =>
        \/ dest = OldContent
        \/ dest = SvgDocument(width, height, optimized_rects)

(* C9: for every row the number of rectangles equals the number of maximal *)
(* runs; an all-off row has none, a fully-on row (W >= 1) has exactly one, *)
(* with x = 0 and width = W, and an isolated on pixel has a rectangle of   *)
(* width 1.                                                                *)
C9_RunCount ==
    Encoded =>
        \A yy \in Rows :
            /\ Cardinality(RowRects(yy)) = Cardinality(RunStarts(yy))
            /\ (\A xx \in Cols : ~mask[yy][xx]) => RowRects(yy) = {}
            /\ (width >= 1 /\ \A xx \in Cols : mask[yy][xx]) =>
                   /\ Cardinality(RowRects(yy)) = 1
                   /\ \A i \in RowRects(yy) : Emitted[i].x = 0 /\ Emitted[i].width = width
            /\ \A xx \in Cols :
                   (/\ mask[yy][xx]
                    /\ (xx = 0 \/ ~mask[yy][xx - 1])
                    /\ (xx = width - 1 \/ ~mask[yy][xx + 1])) =>
                       \E i \in RowRects(yy) : Emitted[i].x = xx /\ Emitted[i].width = 1

C9_Witness ==
    /\ Encoded
    /\ \E yy \in Rows : Cardinality(RowRects(yy)) = 2 /\ Cardinality(RunStarts(yy)) = 2
    /\ \E yy \in Rows : (\A xx \in Cols : mask[yy][xx]) /\ Cardinality(RowRects(yy)) = 1

ReadCount(c) == Cardinality({i \in 1..Len(reads) : reads[i] = c})

C10_Safe ==
    /\ \A i \in 1..Len(reads) : reads[i][1] \in Rows /\ reads[i][2] \in Cols
    /\ \A i \in 1..Len(reads) : ReadCount(reads[i]) <= 2
    /\ pc = "while" => x > iter_x
    /\ pc \in {"while", "run"} => (y \in Rows /\ x <= width)

(* C10: the encoder scan terminates; x is larger at the end of every       *)
(* iteration of the row loop than at its start; the mask is read only at   *)
(* cells inside the grid, and each cell at most twice.                     *)
C10_Scan ==
    /\ []C10_Safe
    /\ (pc \in {"for", "while", "run"}) ~> (pc = "svg")

C10_Witness ==
    /\ pc = "svg"
    /\ height = MaxH /\ width = MaxW
    /\ \E i \in 1..Len(reads) : ReadCount(reads[i]) = 2
    /\ \E i \in 1..Len(reads) : ReadCount(reads[i]) = 1
====
